---- MODULE Spec2Model ----
(***************************************************************************)
(* State-machine model of the index-set containers of opti_extensions     *)
(* (src/src/opti_extensions/_index_sets.py): IndexSetBase, IndexSet1D and  *)
(* IndexSetND with its grouping cache `_index_groups`.                     *)
(*                                                                         *)
(* One instance `s` is modelled.  `kind` is its class.  An element is a    *)
(* record [tup, v]: tup says whether the Python object is a tuple, v holds *)
(* its components (one component for a scalar).  A group mapping (a        *)
(* defaultdict in the code, whose key order is insertion order) is a       *)
(* sequence of [key, elems] records.  The cache is a function from the     *)
(* cached dimension-index combinations to group mappings.                  *)
(*                                                                         *)
(* `_dict` holds the items of a ParamDict1D or ParamDictND                 *)
(* (src/src/opti_extensions/_param_dicts.py) whose `_indexset` is the      *)
(* instance: a sequence of [key, value] records in insertion order, empty  *)
(* when the instance belongs to no dict.  `returned` is the list of the    *)
(* cache the caller holds after subset handed it out: the dimension        *)
(* combination and the key of the group, or <<>> when the caller holds     *)
(* none.                                                                   *)
(***************************************************************************)
EXTENDS Integers, Sequences, FiniteSets, TLC

VARIABLES kind, iterables, _list, _set, _tuplelen, _index_groups, _dict, returned,
          op, err

vars ==
    <<kind, iterables, _list, _set, _tuplelen, _index_groups, _dict, returned, op, err>>

(***************************************************************************)
(* Bounds and input universes                                              *)
(***************************************************************************)
\* the longest element list explored
MaxLen == 2

\* the values of scalars and tuple components
Vals == {0, 1}

\* the tuple widths offered
Widths == {1, 2, 3}

\* `_tuplelen` when the attribute is not set (__init__ only declares it)
Unset == -1

\* the pattern value '*'
Wildcard == -1

\* a pattern value that is an iterable other than a string
NonScalar == -2

Scalar(x) == [tup |-> FALSE, v |-> <<x>>]

Tuple(sq) == [tup |-> TRUE, v |-> sq]

\* a collection that is neither a tuple nor a string, such as the list [0, 1]
Coll(sq) == [tup |-> FALSE, v |-> sq]

\* isinstance(e, Iterable) and not isinstance(e, str) is false
IsScalar(e) == ~e.tup /\ Len(e.v) = 1

\* not isinstance(e, tuple) and not isinstance(e, str) and isinstance(e, Collection)
IsColl(e) == ~e.tup /\ Len(e.v) > 1

SeqsOfLen(S, n) == [1..n -> S]

Scalars == {Scalar(x) : x \in Vals}

\* the tuples offered to the collection: one of width 1, two of width 2 and three
\* of width 3, which share values in dimension 0 and in dimension 1
Tuples ==
    {Tuple(<<0>>), Tuple(<<0, 0>>), Tuple(<<0, 1>>),
     Tuple(<<0, 0, 0>>), Tuple(<<0, 1, 0>>), Tuple(<<1, 0, 0>>)}

\* the list offered to the collection
Colls == {Coll(<<0, 1>>)}

Inputs == Scalars \cup Tuples \cup Colls

\* the elements that batches of two are made of
PairInputs ==
    {Scalar(0), Tuple(<<0, 0>>), Tuple(<<0, 1>>), Tuple(<<0, 0, 0>>)} \cup Colls

Batches ==
    {<<>>} \cup {<<e>> : e \in Inputs}
        \cup {<<e1, e2>> : e1 \in PairInputs, e2 \in PairInputs}

Indexes == (-1)..MaxLen

\* slices start:stop (step 1): the first element, everything, the tail, an empty slice
Slices == {<<0, 1>>, <<0, MaxLen>>, <<1, MaxLen>>, <<1, 1>>}

Classes == {"IndexSet1D", "IndexSetND"}

(***************************************************************************)
(* Python list helpers                                                     *)
(***************************************************************************)
Range(sq) == {sq[i] : i \in DOMAIN sq}

Min2(a, b) == IF a < b THEN a ELSE b

Max2(a, b) == IF a > b THEN a ELSE b

\* list indexing: a valid index i of a list of length n satisfies -n <= i < n
ValidIndex(i, n) == -n <= i /\ i < n

\* 1-based position of Python index i in a list of length n
Pos(i, n) == IF i < 0 THEN i + n + 1 ELSE i + 1

\* bounds of the slice sl = (start, stop), step 1, clamped as list slicing does
SliceLo(sl, n) == IF sl[1] < 0 THEN Max2(sl[1] + n, 0) ELSE Min2(sl[1], n)

SliceHi(sl, n) ==
    LET hi == IF sl[2] < 0 THEN Max2(sl[2] + n, 0) ELSE Min2(sl[2], n)
    IN  Max2(hi, SliceLo(sl, n))

GetSlice(lst, sl) == SubSeq(lst, SliceLo(sl, Len(lst)) + 1, SliceHi(sl, Len(lst)))

SetSlice(lst, sl, new) ==
    SubSeq(lst, 1, SliceLo(sl, Len(lst))) \o new
        \o SubSeq(lst, SliceHi(sl, Len(lst)) + 1, Len(lst))

DelSlice(lst, sl) == SetSlice(lst, sl, <<>>)

SetIdx(lst, i, e) == [lst EXCEPT ![Pos(i, Len(lst))] = e]

DelPos(lst, p) == SubSeq(lst, 1, p - 1) \o SubSeq(lst, p + 1, Len(lst))

\* a variant of InsertAt that puts the element after all the others
InsertAt_atend(lst, i, e) == Append(lst, e)

\* list.insert(i, e): the index is clamped to the ends of the list
InsertAt(lst, i, e) ==
    LET n == Len(lst)
        k == IF i < 0 THEN Max2(i + n, 0) ELSE Min2(i, n)
    IN  SubSeq(lst, 1, k) \o <<e>> \o SubSeq(lst, k + 1, n)

\* list.remove(e): position of the first occurrence
FirstPos(lst, e) == CHOOSE p \in DOMAIN lst : lst[p] = e /\ \A q \in 1..(p - 1) : lst[q] # e

ReverseSeq(lst) == [i \in 1..Len(lst) |-> lst[Len(lst) + 1 - i]]

\* Python's ordering of tuples (and of scalars, one component): lexicographic
RECURSIVE LexLess(_, _)
LexLess(a, b) ==
    IF a = <<>> THEN b # <<>>
    ELSE IF b = <<>> THEN FALSE
    ELSE IF Head(a) # Head(b) THEN Head(a) < Head(b)
    ELSE LexLess(Tail(a), Tail(b))

\* stable insertion of e into an ascending list
RECURSIVE InsertSorted(_, _)
InsertSorted(lst, e) ==
    IF lst = <<>> THEN <<e>>
    ELSE IF LexLess(e.v, Head(lst).v) THEN <<e>> \o lst
    ELSE <<Head(lst)>> \o InsertSorted(Tail(lst), e)

RECURSIVE SortAsc(_)
SortAsc(lst) ==
    IF lst = <<>> THEN <<>>
    ELSE InsertSorted(SortAsc(SubSeq(lst, 1, Len(lst) - 1)), lst[Len(lst)])

EmptyCache == [d \in {} |-> <<>>]

(***************************************************************************)
(* Validation, duplicate check and eviction (the overridable hooks)        *)
(***************************************************************************)
\* IndexSetND._check_tuplelen: one common length, returned through elems[0]
_check_tuplelen(elems) ==
    IF Cardinality({Len(elems[i].v) : i \in DOMAIN elems}) > 1
    THEN [err |-> "ValueError", len |-> Unset]
    ELSE IF elems = <<>>
    THEN [err |-> "IndexError", len |-> Unset]
    ELSE [err |-> "none", len |-> Len(elems[1].v)]

\* a variant of _validate_elements of IndexSetND that compares the lengths before
\* it looks for non-tuple elements
_validate_elements_widthfirst(cls, tl, elems) ==
    IF cls = "IndexSet1D"
    THEN IF \E i \in DOMAIN elems : ~IsScalar(elems[i])
         THEN [err |-> "TypeError", tuplelen |-> tl]
         ELSE [err |-> "none", tuplelen |-> tl]
    ELSE LET c == _check_tuplelen(elems)
         IN  IF c.err # "none" THEN [err |-> c.err, tuplelen |-> tl]
             ELSE IF tl # Unset /\ tl # c.len
             THEN [err |-> "ValueError", tuplelen |-> tl]
             ELSE IF \E i \in DOMAIN elems : ~elems[i].tup
             THEN [err |-> "TypeError", tuplelen |-> tl]
             ELSE [err |-> "none", tuplelen |-> IF tl # Unset THEN tl ELSE c.len]

\* a variant of _validate_elements that skips the comparison with `_tuplelen`
_validate_elements_anywidth(cls, tl, elems) ==
    IF cls = "IndexSet1D"
    THEN IF \E i \in DOMAIN elems : ~IsScalar(elems[i])
         THEN [err |-> "TypeError", tuplelen |-> tl]
         ELSE [err |-> "none", tuplelen |-> tl]
    ELSE IF \E i \in DOMAIN elems : ~elems[i].tup
    THEN [err |-> "TypeError", tuplelen |-> tl]
    ELSE LET c == _check_tuplelen(elems)
         IN  IF c.err # "none" THEN [err |-> c.err, tuplelen |-> tl]
             ELSE [err |-> "none", tuplelen |-> IF tl # Unset THEN tl ELSE c.len]

\* _validate_elements of class cls on an instance whose `_tuplelen` is tl.
\* Returns the error raised (or "none") and the value `_tuplelen` has afterwards.
_validate_elements(cls, tl, elems) ==
    IF cls = "IndexSet1D"
    THEN IF \E i \in DOMAIN elems : ~IsScalar(elems[i])
         THEN [err |-> "TypeError", tuplelen |-> tl]
         ELSE [err |-> "none", tuplelen |-> tl]
    ELSE IF \E i \in DOMAIN elems : ~elems[i].tup
    THEN [err |-> "TypeError", tuplelen |-> tl]
    ELSE LET c == _check_tuplelen(elems)
         IN  IF c.err # "none" THEN [err |-> c.err, tuplelen |-> tl]
             ELSE IF tl # Unset
             THEN IF tl # c.len
                  THEN [err |-> "ValueError", tuplelen |-> tl]
                  ELSE [err |-> "none", tuplelen |-> tl]
             ELSE [err |-> "none", tuplelen |-> c.len]

\* IndexSetBase._ensure_no_duplicates
HasDuplicates(elems) == Len(elems) > Cardinality(Range(elems))

\* a variant of _ensure_no_duplicates that clears the cache before the check
_ensure_no_duplicates_clearfirst(elems) ==
    IF HasDuplicates(elems)
    THEN [err |-> "ValueError", set |-> _set,
          groups |-> IF kind = "IndexSetND" THEN EmptyCache ELSE _index_groups]
    ELSE [err |-> "none", set |-> Range(elems),
          groups |-> IF kind = "IndexSetND" THEN EmptyCache ELSE _index_groups]

\* _ensure_no_duplicates on the instance: IndexSetND clears the cache once the
\* base check has passed
_ensure_no_duplicates(elems) ==
    IF HasDuplicates(elems)
    THEN [err |-> "ValueError", set |-> _set, groups |-> _index_groups]
    ELSE [err |-> "none", set |-> Range(elems),
          groups |-> IF kind = "IndexSetND" THEN EmptyCache ELSE _index_groups]

\* a variant of _remove_elements that leaves the membership set alone
_remove_elements_keepset(elems, lst) ==
    [err |-> IF kind = "IndexSetND" /\ lst = <<>> /\ _tuplelen = Unset
             THEN "AttributeError" ELSE "none",
     set |-> _set,
     groups |-> IF kind = "IndexSetND" THEN EmptyCache ELSE _index_groups,
     tuplelen |-> IF kind = "IndexSetND" /\ lst = <<>> THEN Unset ELSE _tuplelen]

\* a variant of _remove_elements that leaves the grouping cache alone
_remove_elements_keepcache(elems, lst) ==
    [err |-> IF kind = "IndexSetND" /\ lst = <<>> /\ _tuplelen = Unset
             THEN "AttributeError" ELSE "none",
     set |-> _set \ Range(elems),
     groups |-> _index_groups,
     tuplelen |-> IF kind = "IndexSetND" /\ lst = <<>> THEN Unset ELSE _tuplelen]

\* _remove_elements on the instance; lst is `self._list` at the time of the call.
\* IndexSetND clears the cache and deletes `_tuplelen` when lst is empty
\* (AttributeError when the attribute is not set).
_remove_elements(elems, lst) ==
    IF kind = "IndexSet1D"
    THEN [err |-> "none", set |-> _set \ Range(elems),
          groups |-> _index_groups, tuplelen |-> _tuplelen]
    ELSE IF lst # <<>>
    THEN [err |-> "none", set |-> _set \ Range(elems),
          groups |-> EmptyCache, tuplelen |-> _tuplelen]
    ELSE IF _tuplelen = Unset
    THEN [err |-> "AttributeError", set |-> _set \ Range(elems),
          groups |-> EmptyCache, tuplelen |-> _tuplelen]
    ELSE [err |-> "none", set |-> _set \ Range(elems),
          groups |-> EmptyCache, tuplelen |-> Unset]

\* the outcome of a call on the instance: the exception raised (or "none") and
\* the fields as the call leaves them
Out(e, lst, st, tl, grp) ==
    [err |-> e, list |-> lst, set |-> st, tuplelen |-> tl, groups |-> grp]

\* an exception raised before any field was assigned
Fail(e) == Out(e, _list, _set, _tuplelen, _index_groups)

(***************************************************************************)
(* Mutating operations of IndexSetBase (inherited by both classes)         *)
(***************************************************************************)
\* The argument of extend, `+=`, `+` and slice assignment: any Python object.
\* iterable: list(other) works; truthy: bool(other); items: list(other).  Lists
\* and tuples are truthy unless empty; an exhausted generator is truthy and empty.
Others ==
    {[iterable |-> TRUE, truthy |-> (b # <<>>), items |-> b] : b \in Batches}
        \cup {[iterable |-> FALSE, truthy |-> t, items |-> <<>>] : t \in BOOLEAN}
        \cup {[iterable |-> TRUE, truthy |-> TRUE, items |-> <<>>]}

append(elem) ==
    LET val == _validate_elements(kind, _tuplelen, <<elem>>)
        dup == _ensure_no_duplicates(_list \o <<elem>>)
    IN  IF val.err # "none" THEN Fail(val.err)
        ELSE IF dup.err # "none"
        THEN Out(dup.err, _list, dup.set, val.tuplelen, dup.groups)
        ELSE Out("none", Append(_list, elem), dup.set, val.tuplelen,
                     dup.groups)

\* a variant of extend that appends the elements one by one and stops at the
\* first duplicate
extend_onebyone(elems) ==
    IF ~elems.iterable THEN Fail("TypeError")
    ELSE LET new == elems.items
             val == _validate_elements(kind, _tuplelen, new)
             dup == _ensure_no_duplicates(_list \o new)
             first == _ensure_no_duplicates(_list \o SubSeq(new, 1, 1))
         IN  IF val.err # "none" THEN Fail(val.err)
             ELSE IF dup.err # "none" /\ first.err # "none"
             THEN Out(dup.err, _list, dup.set, val.tuplelen, dup.groups)
             ELSE IF dup.err # "none"
             THEN Out(dup.err, _list \o SubSeq(new, 1, 1), first.set, val.tuplelen,
                      first.groups)
             ELSE Out("none", _list \o new, dup.set, val.tuplelen,
                          dup.groups)

extend(elems) ==
    IF ~elems.iterable THEN Fail("TypeError")
    ELSE LET new == elems.items
             val == _validate_elements(kind, _tuplelen, new)
             dup == _ensure_no_duplicates(_list \o new)
         IN  IF val.err # "none" THEN Fail(val.err)
             ELSE IF dup.err # "none"
             THEN Out(dup.err, _list, dup.set, val.tuplelen, dup.groups)
             ELSE Out("none", _list \o new, dup.set, val.tuplelen,
                          dup.groups)

insert(index, elem) ==
    LET val == _validate_elements(kind, _tuplelen, <<elem>>)
        dup == _ensure_no_duplicates(_list \o <<elem>>)
    IN  IF val.err # "none" THEN Fail(val.err)
        ELSE IF dup.err # "none"
        THEN Out(dup.err, _list, dup.set, val.tuplelen, dup.groups)
        ELSE Out("none", InsertAt(_list, index, elem), dup.set,
                     val.tuplelen, dup.groups)

\* insert with an index that is not an int
insert_badindex == Fail("TypeError")

\* a variant of _setitem_idx that does not restore the old element when the
\* duplicate check fails
_setitem_idx_norestore(index, elem) ==
    LET val == _validate_elements(kind, _tuplelen, <<elem>>)
    IN  IF val.err # "none" THEN Fail(val.err)
        ELSE IF ~ValidIndex(index, Len(_list))
        THEN Out("IndexError", _list, _set, val.tuplelen, _index_groups)
        ELSE LET assigned == SetIdx(_list, index, elem)
                 dup == _ensure_no_duplicates(assigned)
             IN  IF dup.err # "none"
                 THEN Out(dup.err, assigned, dup.set, val.tuplelen, dup.groups)
                 ELSE Out("none", assigned, dup.set, val.tuplelen,
                           dup.groups)

_setitem_idx(index, elem) ==
    LET val == _validate_elements(kind, _tuplelen, <<elem>>)
    IN  IF val.err # "none" THEN Fail(val.err)
        ELSE IF ~ValidIndex(index, Len(_list))
        THEN Out("IndexError", _list, _set, val.tuplelen, _index_groups)
        ELSE LET old == _list[Pos(index, Len(_list))]
                 assigned == SetIdx(_list, index, elem)
                 dup == _ensure_no_duplicates(assigned)
             IN  IF dup.err # "none"
                 THEN Out(dup.err, SetIdx(assigned, index, old), dup.set,
                           val.tuplelen, dup.groups)
                 ELSE Out("none", assigned, dup.set, val.tuplelen,
                           dup.groups)

\* a variant of _setitem_slice that looks for duplicates among the old elements
\* and the new ones, as extend does
_setitem_slice_dupsagainstold(index, elem) ==
    IF ~elem.iterable THEN Fail("TypeError")
    ELSE LET new == elem.items
             val == _validate_elements(kind, _tuplelen, new)
             old == _list
             assigned == SetSlice(_list, index, new)
             dup == _ensure_no_duplicates(assigned)
         IN  IF val.err # "none" THEN Fail(val.err)
             ELSE IF HasDuplicates(old \o new)
             THEN Out("ValueError", old, _set, val.tuplelen, _index_groups)
             ELSE Out("none", assigned, dup.set, val.tuplelen,
                          dup.groups)

_setitem_slice(index, elem) ==
    IF ~elem.iterable THEN Fail("TypeError")
    ELSE LET new == elem.items
             val == _validate_elements(kind, _tuplelen, new)
             old == _list
             assigned == SetSlice(_list, index, new)
             dup == _ensure_no_duplicates(assigned)
         IN  IF val.err # "none" THEN Fail(val.err)
             ELSE IF dup.err # "none"
             THEN Out(dup.err, old, dup.set, val.tuplelen, dup.groups)
             ELSE Out("none", assigned, dup.set, val.tuplelen,
                          dup.groups)

\* __setitem__ with an index that is neither an int nor a slice
setitem_badindex == Fail("TypeError")

delitem_idx(index) ==
    IF ~ValidIndex(index, Len(_list)) THEN Fail("IndexError")
    ELSE LET old_single == _list[Pos(index, Len(_list))]
             rem == _remove_elements(<<old_single>>, _list)
         IN  IF rem.err # "none"
             THEN Out(rem.err, _list, rem.set, rem.tuplelen, rem.groups)
             ELSE Out("none", DelPos(_list, Pos(index, Len(_list))),
                       rem.set, rem.tuplelen, rem.groups)

delitem_slice(index) ==
    LET old_multiple == GetSlice(_list, index)
        rem == _remove_elements(old_multiple, _list)
    IN  IF rem.err # "none"
        THEN Out(rem.err, _list, rem.set, rem.tuplelen, rem.groups)
        ELSE Out("none", DelSlice(_list, index), rem.set, rem.tuplelen,
                  rem.groups)

\* __delitem__ with an index that is neither an int nor a slice
delitem_badindex == Fail("TypeError")

remove(elem) ==
    IF elem \notin Range(_list) THEN Fail("ValueError")
    ELSE LET removed == DelPos(_list, FirstPos(_list, elem))
             rem == _remove_elements(<<elem>>, removed)
         IN  Out(rem.err, removed, rem.set, rem.tuplelen, rem.groups)

pop(index) ==
    IF ~ValidIndex(index, Len(_list)) THEN Fail("IndexError")
    ELSE LET elem == _list[Pos(index, Len(_list))]
             removed == DelPos(_list, Pos(index, Len(_list)))
             rem == _remove_elements(<<elem>>, removed)
         IN  Out(rem.err, removed, rem.set, rem.tuplelen, rem.groups)

\* pop with an index that is not an int: list.pop raises before anything changes
pop_badindex == Fail("TypeError")

\* IndexSetBase.clear, and what IndexSetND.clear does after it
clear ==
    LET lst == IF _list # <<>> THEN <<>> ELSE _list
        st == IF _list # <<>> THEN {} ELSE _set
    IN  IF kind = "IndexSet1D"
        THEN Out("none", lst, st, _tuplelen, _index_groups)
        ELSE Out("none", lst, st, Unset, EmptyCache)

\* sort with the default key; neither sort nor reverse touches any other field
sort(descending) ==
    Out("none",
         IF descending THEN ReverseSeq(SortAsc(_list)) ELSE SortAsc(_list),
         _set, _tuplelen, _index_groups)

reverse == Out("none", ReverseSeq(_list), _set, _tuplelen, _index_groups)

__iadd__(other) ==
    IF ~other.truthy THEN Fail("none")
    ELSE IF ~other.iterable THEN Fail("TypeError")
    ELSE LET lst_other == other.items
             val == _validate_elements(kind, _tuplelen, lst_other)
             added == _list \o lst_other
             dup == _ensure_no_duplicates(added)
         IN  IF val.err # "none" THEN Fail(val.err)
             ELSE IF dup.err # "none"
             THEN Out(dup.err, _list, dup.set, val.tuplelen, dup.groups)
             ELSE Out("none", added, dup.set, val.tuplelen, dup.groups)

\* cls(elems) for a list elems: IndexSet1D.__init__, or IndexSetND.__init__ with
\* one iterable, which coerces the elements to tuples when they all are non-tuple
\* collections; then IndexSetBase.__init__ unless the list is empty
Construct(cls, elems) ==
    LET coerced == IF /\ cls = "IndexSetND"
                      /\ elems # <<>>
                      /\ \A i \in DOMAIN elems : IsColl(elems[i])
                   THEN [i \in DOMAIN elems |-> Tuple(elems[i].v)]
                   ELSE elems
        val == _validate_elements(cls, Unset, coerced)
    IN  IF coerced = <<>> /\ cls = "IndexSetND"
        THEN [err |-> "none", cls |-> cls, list |-> <<>>]
        ELSE IF val.err # "none" THEN [err |-> val.err, cls |-> cls, list |-> <<>>]
        ELSE IF HasDuplicates(coerced)
        THEN [err |-> "ValueError", cls |-> cls, list |-> <<>>]
        ELSE [err |-> "none", cls |-> cls, list |-> coerced]

\* the outcome of `s + other`: the exception or the new instance (new), and the
\* fields of s as the call leaves them
__add__(other) ==
    LET raised(e) == [err |-> e, cls |-> kind, list |-> <<>>]
        val == _validate_elements(kind, _tuplelen, other.items)
        new == IF ~other.truthy THEN Construct(kind, _list)
               ELSE IF ~other.iterable THEN raised("TypeError")
               ELSE IF _list = <<>> THEN Construct(kind, other.items)
               ELSE IF val.err # "none" THEN raised(val.err)
               ELSE Construct(kind, _list \o other.items)
        tl == IF other.truthy /\ other.iterable /\ _list # <<>>
              THEN val.tuplelen ELSE _tuplelen
    IN  [err |-> new.err, list |-> _list, set |-> _set, tuplelen |-> tl,
         groups |-> _index_groups, new |-> new]

(***************************************************************************)
(* The grouping cache and the queries of IndexSetND                        *)
(***************************************************************************)
\* itemgetter(*indices)(elem), as a 1-tuple when there is one index
Project(elem, indices) == [i \in 1..Len(indices) |-> elem.v[indices[i] + 1]]

\* a variant of AddToGroup that puts the element at the front of its group
AddToGroup_front(group, key, elem) ==
    IF \E i \in DOMAIN group : group[i].key = key
    THEN [i \in DOMAIN group |->
            IF group[i].key = key
            THEN [key |-> key, elems |-> <<elem>> \o group[i].elems]
            ELSE group[i]]
    ELSE Append(group, [key |-> key, elems |-> <<elem>>])

\* group[key].append(elem) on a defaultdict(list)
AddToGroup(group, key, elem) ==
    IF \E i \in DOMAIN group : group[i].key = key
    THEN [i \in DOMAIN group |->
            IF group[i].key = key
            THEN [key |-> key, elems |-> Append(group[i].elems, elem)]
            ELSE group[i]]
    ELSE Append(group, [key |-> key, elems |-> <<elem>>])

\* the loop of _groupby over lst
RECURSIVE BuildGroup(_, _)
BuildGroup(lst, indices) ==
    IF lst = <<>> THEN <<>>
    ELSE AddToGroup(BuildGroup(SubSeq(lst, 1, Len(lst) - 1), indices),
                    Project(lst[Len(lst)], indices), lst[Len(lst)])

\* a variant of _groupby that rebuilds the mapping on every call
_groupby_rebuild(indices) ==
    LET group == BuildGroup(_list, indices)
    IN  [group |-> group,
         groups |-> [d \in DOMAIN _index_groups \cup {indices} |->
                       IF d = indices THEN group ELSE _index_groups[d]]]

\* _groupby(*indices): the mapping returned (group) and the cache afterwards
_groupby(indices) ==
    IF indices \in DOMAIN _index_groups
    THEN [group |-> _index_groups[indices], groups |-> _index_groups]
    ELSE LET group == BuildGroup(_list, indices)
         IN  [group |-> group,
              groups |-> [d \in DOMAIN _index_groups \cup {indices} |->
                            IF d = indices THEN group ELSE _index_groups[d]]]

\* dict.get(key, list()) on a group mapping
GroupGet(group, key) ==
    IF \E i \in DOMAIN group : group[i].key = key
    THEN group[CHOOSE i \in DOMAIN group : group[i].key = key].elems
    ELSE <<>>

\* the 0-based positions of the non-wildcard values of a pattern, ascending
RECURSIVE NonWildIndices(_, _)
NonWildIndices(pattern, i) ==
    IF i > Len(pattern) THEN <<>>
    ELSE IF pattern[i] # Wildcard
    THEN <<i - 1>> \o NonWildIndices(pattern, i + 1)
    ELSE NonWildIndices(pattern, i + 1)

\* a variant of subset that compares the pattern length before it looks for
\* non-scalar values
subset_lengthfirst(pattern) ==
    LET indices == NonWildIndices(pattern, 1)
        given == SelectSeq(pattern, LAMBDA v : v # Wildcard)
        grp == _groupby(indices)
        raised(e, m) == [err |-> e, msg |-> m, list |-> _list, set |-> _set,
                         tuplelen |-> _tuplelen, groups |-> _index_groups, ret |-> <<>>]
    IN  IF _list = <<>> THEN raised("LookupError", "is empty")
        ELSE IF Len(pattern) # _tuplelen
        THEN raised("ValueError", "pattern length must be the same")
        ELSE IF \E i \in DOMAIN pattern : pattern[i] = NonScalar
        THEN raised("TypeError", "pattern values must be scalars")
        ELSE IF Len(indices) = 0
        THEN raised("ValueError", "pattern cannot have all wildcards")
        ELSE IF Len(indices) = _tuplelen
        THEN raised("ValueError", "pattern cannot have no wildcards")
        ELSE [err |-> "none", msg |-> "", list |-> _list, set |-> _set,
              tuplelen |-> _tuplelen, groups |-> grp.groups,
              ret |-> GroupGet(grp.group, given)]

\* a variant of subset that reads the group mapping with [] instead of get: the
\* defaultdict then stores an empty list under a key it does not hold
subset_getitem(pattern) ==
    LET indices == NonWildIndices(pattern, 1)
        given == SelectSeq(pattern, LAMBDA v : v # Wildcard)
        grp == _groupby(indices)
        touched == IF \E i \in DOMAIN grp.group : grp.group[i].key = given
                   THEN grp.group
                   ELSE Append(grp.group, [key |-> given, elems |-> <<>>])
        raised(e, m) == [err |-> e, msg |-> m, list |-> _list, set |-> _set,
                         tuplelen |-> _tuplelen, groups |-> _index_groups, ret |-> <<>>]
    IN  IF _list = <<>> THEN raised("LookupError", "is empty")
        ELSE IF \E i \in DOMAIN pattern : pattern[i] = NonScalar
        THEN raised("TypeError", "pattern values must be scalars")
        ELSE IF Len(pattern) # _tuplelen
        THEN raised("ValueError", "pattern length must be the same")
        ELSE IF Len(indices) = 0
        THEN raised("ValueError", "pattern cannot have all wildcards")
        ELSE IF Len(indices) = _tuplelen
        THEN raised("ValueError", "pattern cannot have no wildcards")
        ELSE [err |-> "none", msg |-> "", list |-> _list, set |-> _set,
              tuplelen |-> _tuplelen,
              groups |-> [d \in DOMAIN grp.groups |->
                            IF d = indices THEN touched ELSE grp.groups[d]],
              ret |-> GroupGet(grp.group, given)]

\* the outcome of subset(*pattern): the exception and the start of its message
\* (msg), the list returned (ret) and the fields as the call leaves them
subset(pattern) ==
    LET indices == NonWildIndices(pattern, 1)
        given == SelectSeq(pattern, LAMBDA v : v # Wildcard)
        grp == _groupby(indices)
        raised(e, m) == [err |-> e, msg |-> m, list |-> _list, set |-> _set,
                         tuplelen |-> _tuplelen, groups |-> _index_groups, ret |-> <<>>]
    IN  IF _list = <<>> THEN raised("LookupError", "is empty")
        ELSE IF \E i \in DOMAIN pattern : pattern[i] = NonScalar
        THEN raised("TypeError", "pattern values must be scalars")
        ELSE IF Len(pattern) # _tuplelen
        THEN raised("ValueError", "pattern length must be the same")
        ELSE IF Len(indices) = 0
        THEN raised("ValueError", "pattern cannot have all wildcards")
        ELSE IF Len(indices) = _tuplelen
        THEN raised("ValueError", "pattern cannot have no wildcards")
        ELSE [err |-> "none", msg |-> "", list |-> _list, set |-> _set,
              tuplelen |-> _tuplelen, groups |-> grp.groups,
              ret |-> GroupGet(grp.group, given)]

\* the `names` argument of squeeze: None, a sequence of one string, a sequence of
\* two strings, a sequence of one value that is not a string
NamesArgs == {"None", "one", "two", "nonstr"}

\* what squeeze and the constructor it calls raise for the names: with one index,
\* squeeze wants at most one name and IndexSet1D.name a string; with several
\* indices, IndexSetND.names wants a sequence of strings of any length
NamesError(indices, names) ==
    IF Len(indices) > 1
    THEN IF names = "nonstr"
         THEN [err |-> "TypeError", msg |-> "names should be a sequence of strings"]
         ELSE [err |-> "none", msg |-> ""]
    ELSE IF names = "two"
    THEN [err |-> "ValueError", msg |-> "names should have only one name"]
    ELSE IF names = "nonstr"
    THEN [err |-> "TypeError", msg |-> "name should be a string"]
    ELSE [err |-> "none", msg |-> ""]

\* a variant of squeeze that looks for invalid positions before it looks at the
\* types of the indices
squeeze_rangefirst(dims) ==
    LET indices == dims.idx
        grp == _groupby(indices)
        keys == [i \in DOMAIN grp.group |-> grp.group[i].key]
        raised(e, m) == [err |-> e, msg |-> m, list |-> _list, set |-> _set,
                         tuplelen |-> _tuplelen, groups |-> _index_groups,
                         cls |-> "none", ret |-> <<>>]
        rejected == NamesError(indices, dims.names)
        new == IF Len(indices) > 1
               THEN Construct("IndexSetND", [i \in DOMAIN keys |-> Tuple(keys[i])])
               ELSE Construct("IndexSet1D", [i \in DOMAIN keys |-> Scalar(keys[i][1])])
    IN  IF _list = <<>> THEN raised("LookupError", "is empty")
        ELSE IF \E i \in DOMAIN indices : indices[i] \notin 0..(_tuplelen - 1)
        THEN raised("ValueError", "dimension indices are invalid")
        ELSE IF ~dims.ints
        THEN raised("TypeError", "dimension indices should be integers")
        ELSE IF Len(indices) = 0
        THEN raised("ValueError", "dimension indices are required")
        ELSE IF Len(indices) = _tuplelen
        THEN raised("ValueError", "does not work with all dimension indices")
        ELSE IF rejected.err # "none"
        THEN [err |-> rejected.err, msg |-> rejected.msg, list |-> _list, set |-> _set,
              tuplelen |-> _tuplelen, groups |-> grp.groups, cls |-> "none",
              ret |-> <<>>]
        ELSE [err |-> new.err, msg |-> "", list |-> _list, set |-> _set,
              tuplelen |-> _tuplelen, groups |-> grp.groups, cls |-> new.cls,
              ret |-> new.list]

\* the outcome of squeeze(*indices, names=names): the exception and the start of
\* its message (msg), the container returned (its class cls and its elements ret)
\* and the fields as the call leaves them.  dims.idx are the indices that are
\* ints, dims.ints is FALSE when a further index is not an int.
squeeze(dims) ==
    LET indices == dims.idx
        grp == _groupby(indices)
        keys == [i \in DOMAIN grp.group |-> grp.group[i].key]
        raised(e, m) == [err |-> e, msg |-> m, list |-> _list, set |-> _set,
                         tuplelen |-> _tuplelen, groups |-> _index_groups,
                         cls |-> "none", ret |-> <<>>]
        rejected == NamesError(indices, dims.names)
        new == IF Len(indices) > 1
               THEN Construct("IndexSetND", [i \in DOMAIN keys |-> Tuple(keys[i])])
               ELSE Construct("IndexSet1D", [i \in DOMAIN keys |-> Scalar(keys[i][1])])
    IN  IF _list = <<>> THEN raised("LookupError", "is empty")
        ELSE IF ~dims.ints
        THEN raised("TypeError", "dimension indices should be integers")
        ELSE IF Len(indices) = 0
        THEN raised("ValueError", "dimension indices are required")
        ELSE IF \E i \in DOMAIN indices : indices[i] \notin 0..(_tuplelen - 1)
        THEN raised("ValueError", "dimension indices are invalid")
        ELSE IF Len(indices) = _tuplelen
        THEN raised("ValueError", "does not work with all dimension indices")
        ELSE IF rejected.err # "none"
        THEN [err |-> rejected.err, msg |-> rejected.msg, list |-> _list, set |-> _set,
              tuplelen |-> _tuplelen, groups |-> grp.groups, cls |-> "none",
              ret |-> <<>>]
        ELSE [err |-> new.err, msg |-> "", list |-> _list, set |-> _set,
              tuplelen |-> _tuplelen, groups |-> grp.groups, cls |-> new.cls,
              ret |-> new.list]

MaxWidth == CHOOSE w \in Widths : \A x \in Widths : x <= w

PatVals == Vals \cup {Wildcard, NonScalar}

\* the dimension-index combinations the queries of the model group by
QueryDims == {<<0>>, <<1>>, <<0, 1>>}

\* patterns: every pattern without wildcard, with only wildcards, or whose
\* non-wildcard positions are one of QueryDims
Patterns ==
    {p \in UNION {SeqsOfLen(PatVals, w) : w \in Widths} :
        \/ NonWildIndices(p, 1) \in QueryDims \cup {<<>>}
        \/ Len(NonWildIndices(p, 1)) = Len(p)}

\* squeeze arguments: QueryDims with every names argument; without names: no
\* index, an index out of range (negative, too large), every dimension of the
\* widest tuple, and an index that is not an int (alone, after a valid index,
\* after an index out of range)
DimArgs ==
    {[ints |-> TRUE, idx |-> sq, names |-> n] : sq \in QueryDims, n \in NamesArgs}
        \cup {[ints |-> TRUE, idx |-> sq, names |-> "None"] :
                 sq \in {<<>>, <<-1>>, <<MaxWidth>>, <<0, MaxWidth>>,
                         [i \in 1..MaxWidth |-> i - 1]}}
        \cup {[ints |-> FALSE, idx |-> sq, names |-> "None"] :
                 sq \in {<<>>, <<0>>, <<MaxWidth>>}}

(***************************************************************************)
(* The constructor of IndexSetND                                           *)
(***************************************************************************)
\* list(product of the iterables): the rows in product order, the last iterable
\* varying fastest; a row is the sequence of the items drawn
RECURSIVE product(_)
product(its) ==
    IF its = <<>> THEN << <<>> >>
    ELSE LET rest == product(Tail(its))
             first == its[1].items
             n == Len(rest)
         IN  [k \in 1..(Len(first) * n) |->
                <<first[((k - 1) \div n) + 1]>> \o rest[((k - 1) % n) + 1]]

\* tuple(_flatten(row)) for a row whose items are scalars or collections of scalars
RECURSIVE _flatten(_)
_flatten(row) ==
    IF row = <<>> THEN <<>> ELSE row[1].v \o _flatten(Tail(row))

\* a row of scalars and collections kept as the tuple it is: a component that is
\* a collection is written NonScalar
AsTuple(row) ==
    Tuple([i \in DOMAIN row |-> IF IsScalar(row[i]) THEN row[i].v[1] ELSE NonScalar])

\* IndexSetND.__init__ with the iterables its: the exception, or the elements of the new
\* instance.  With several iterables the rows of their product are flattened
\* when the first row has a component that is an iterable other than a string.
IndexSetND__init__(its) ==
    LET raised(e) == [err |-> e, cls |-> "IndexSetND", list |-> <<>>]
        rows == product(its)
        elems == IF rows # <<>> /\ \E i \in DOMAIN rows[1] : ~IsScalar(rows[1][i])
                 THEN [k \in DOMAIN rows |-> Tuple(_flatten(rows[k]))]
                 ELSE [k \in DOMAIN rows |-> AsTuple(rows[k])]
    IN  IF its = <<>> THEN [err |-> "none", cls |-> "IndexSetND", list |-> <<>>]
        ELSE IF \E i \in DOMAIN its : ~its[i].iterable THEN raised("TypeError")
        ELSE IF Len(its) > 1 THEN Construct("IndexSetND", elems)
        ELSE Construct("IndexSetND", its[1].items)

(***************************************************************************)
(* Rich comparisons                                                        *)
(***************************************************************************)
\* The right operand of a comparison: its type (an IndexSet class, or list, tuple
\* or set), the membership set of an IndexSet instance (set), whether all its
\* members are IndexSet1D instances (all1D) and, then, their membership sets
\* (sets).
Operand(t, st, a, sq) == [type |-> t, set |-> st, all1D |-> a, sets |-> sq]

\* instances of both classes, as the constructor builds them from a batch
Instances ==
    {Operand(q[1], Range(Construct(q[1], q[2]).list), FALSE, <<>>) :
        q \in {x \in Classes \X Batches : Construct(x[1], x[2]).err = "none"}}

\* tuples of IndexSet1D of every length up to the widest tuple, the empty tuple
\* included (one of the widest has an empty IndexSet1D in dimension 1), and a
\* list of IndexSet1D
Sparse ==
    LET A == Scalars
        B == {Scalar(0)}
    IN  {Operand("tuple", {}, TRUE, sq) :
            sq \in {<<>>, <<A>>, <<A, A>>, <<A, B>>, <<B, A>>,
                    [i \in 1..MaxWidth |-> A], [i \in 1..MaxWidth |-> B],
                    [i \in 1..MaxWidth |-> IF i = 2 THEN {} ELSE A]}}
            \cup {Operand("list", {}, TRUE, <<A, A>>)}

\* a list, a tuple and a set of elements
Plain == {Operand(t, {}, FALSE, <<>>) : t \in {"list", "tuple", "set"}}

Operands == Instances \cup Sparse \cup Plain

\* The operands the calls of the model are made with.  A comparison assigns no
\* field but the cache, which only `<=` with a tuple of IndexSet1D fills: the
\* calls are made with an empty instance of each class, the plain containers and
\* the tuples with which `<=` squeezes only dimensions of QueryDims.
Offered ==
    {o \in Operands :
        /\ o.set = {}
        /\ \A i \in DOMAIN o.sets :
              <<i - 1>> \in QueryDims \/ \E j \in 1..(i - 1) : o.sets[j] = {}}

\* the outcome of a comparison: the exception or the boolean returned (result),
\* and the fields as the call leaves them
Compared(e, b, grp) ==
    [err |-> e, result |-> b, list |-> _list, set |-> _set, tuplelen |-> _tuplelen,
     groups |-> grp]

_raise_op_not_supported_err == Compared("TypeError", FALSE, _index_groups)

\* a variant of __lt__ that also accepts equal sets
__lt___orequal(other) ==
    IF other.type # kind THEN _raise_op_not_supported_err
    ELSE Compared("none", _set \subseteq other.set, _index_groups)

__lt__(other) ==
    IF other.type # kind THEN _raise_op_not_supported_err
    ELSE Compared("none", _set \subseteq other.set /\ _set # other.set, _index_groups)

\* IndexSetBase.__le__, which IndexSet1D inherits
IndexSetBase__le__(other) ==
    IF other.type # kind THEN _raise_op_not_supported_err
    ELSE Compared("none", _set \subseteq other.set, _index_groups)

\* IndexSetND.__le__, which also takes a tuple of IndexSet1D and then squeezes
\* dimension after dimension until one is not inside its IndexSet1D
IndexSetND__le__(other) ==
    LET n == Len(other.sets)
        sq(i) == squeeze([ints |-> TRUE, idx |-> <<i>>, names |-> "None"])
        inside(i) == sq(i).err = "none" /\ Range(sq(i).ret) \subseteq other.sets[i + 1]
        stops == {i \in 0..(n - 1) : ~inside(i)}
        last == IF stops = {} THEN n - 1
                ELSE CHOOSE i \in stops : \A j \in stops : i <= j
        squeezed == {<<i>> : i \in {j \in 0..last : sq(j).err = "none"}}
        cache == [d \in DOMAIN _index_groups \cup squeezed |->
                    IF d \in DOMAIN _index_groups THEN _index_groups[d]
                    ELSE sq(d[1]).groups[d]]
    IN  IF other.type = kind
        THEN Compared("none", _set \subseteq other.set, _index_groups)
        ELSE IF other.type = "tuple" /\ other.all1D
        THEN IF _list = <<>> THEN Compared("LookupError", FALSE, _index_groups)
             ELSE IF _tuplelen # n THEN Compared("ValueError", FALSE, _index_groups)
             ELSE IF stops # {} /\ sq(last).err # "none"
             THEN Compared(sq(last).err, FALSE, cache)
             ELSE Compared("none", stops = {}, cache)
        ELSE Compared("TypeError", FALSE, _index_groups)

\* `self <= other`: the method of the class of self
__le__(other) ==
    IF kind = "IndexSetND" THEN IndexSetND__le__(other) ELSE IndexSetBase__le__(other)

__eq__(other) ==
    IF other.type # kind THEN _raise_op_not_supported_err
    ELSE Compared("none", _set = other.set, _index_groups)

__ne__(other) ==
    IF other.type # kind THEN _raise_op_not_supported_err
    ELSE Compared("none", _set # other.set, _index_groups)

__gt__(other) ==
    IF other.type # kind THEN _raise_op_not_supported_err
    ELSE Compared("none", other.set \subseteq _set /\ _set # other.set, _index_groups)

\* a variant of __ge__ without the isinstance test
__ge___unchecked(other) ==
    Compared("none", other.set \subseteq _set, _index_groups)

__ge__(other) ==
    IF other.type # kind THEN _raise_op_not_supported_err
    ELSE Compared("none", other.set \subseteq _set, _index_groups)

Comparisons == {"<", "<=", "==", "!=", ">", ">="}

\* `self c other` for a comparison symbol c
Compare(c, other) ==
    CASE c = "<" -> __lt__(other)
      [] c = "<=" -> __le__(other)
      [] c = "==" -> __eq__(other)
      [] c = "!=" -> __ne__(other)
      [] c = ">" -> __gt__(other)
      [] c = ">=" -> __ge__(other)

(***************************************************************************)
(* Specification: any sequence of calls on one instance                    *)
(***************************************************************************)
Mutators ==
    {"append", "extend", "insert", "setitem", "delitem", "remove", "pop", "clear",
     "iadd"}

Reorderings == {"sort", "reverse"}

Queries == {"subset", "squeeze"}

\* a call named o with outcome out; lists longer than MaxLen are not explored
Call(o, out) ==
    /\ Len(out.list) <= MaxLen
    /\ op' = o
    /\ err' = out.err
    /\ _list' = out.list
    /\ _set' = out.set
    /\ _tuplelen' = out.tuplelen
    /\ _index_groups' = out.groups
    /\ kind' = kind
    /\ iterables' = iterables
    /\ _dict' = _dict
    /\ returned' = returned

Init ==
    /\ kind \in Classes
    /\ iterables = <<>>
    /\ _dict = <<>>
    /\ _list = <<>>
    /\ _set = {}
    /\ _tuplelen = Unset
    /\ _index_groups = EmptyCache
    /\ returned = <<>>
    /\ op = "init"
    /\ err = "none"

Next ==
    \/ \E e \in Inputs : Call("append", append(e))
    \/ \E o \in Others : Call("extend", extend(o))
    \/ \E i \in Indexes, e \in Inputs : Call("insert", insert(i, e))
    \/ Call("insert", insert_badindex)
    \/ \E i \in Indexes, e \in Inputs : Call("setitem", _setitem_idx(i, e))
    \/ \E sl \in Slices, o \in Others : Call("setitem", _setitem_slice(sl, o))
    \/ Call("setitem", setitem_badindex)
    \/ \E i \in Indexes : Call("delitem", delitem_idx(i))
    \/ \E sl \in Slices : Call("delitem", delitem_slice(sl))
    \/ Call("delitem", delitem_badindex)
    \/ \E e \in Inputs : Call("remove", remove(e))
    \/ \E i \in Indexes : Call("pop", pop(i))
    \/ Call("pop", pop_badindex)
    \/ Call("clear", clear)
    \/ \E d \in BOOLEAN : Call("sort", sort(d))
    \/ Call("reverse", reverse)
    \/ \E o \in Others : Call("iadd", __iadd__(o))
    \/ \E o \in Others : Call("add", __add__(o))
    \/ \E p \in Patterns : kind = "IndexSetND" /\ Call("subset", subset(p))
    \/ \E d \in DimArgs : kind = "IndexSetND" /\ Call("squeeze", squeeze(d))
    \/ \E o \in Offered : Call("compare", __le__(o))
    \/ \E c \in Comparisons \ {"<="}, o \in Offered \ Sparse :
          Call("compare", Compare(c, o))

Spec == Init /\ [][Next]_vars

(***************************************************************************)
(* Specification: an IndexSetND built from iterables, then filled          *)
(***************************************************************************)
\* the iterables given to the constructor: empty, of scalars, of tuples, mixed
\* (scalar first, tuple first), with a repeated item, and an argument that is
\* not iterable
CtorIterables ==
    {[iterable |-> TRUE, truthy |-> (sq # <<>>), items |-> sq] :
        sq \in {<<>>, <<Scalar(0)>>, <<Scalar(0), Scalar(1)>>,
                <<Tuple(<<0, 0>>), Tuple(<<0, 1>>)>>,
                <<Scalar(0), Tuple(<<0, 1>>)>>, <<Tuple(<<0, 1>>), Scalar(0)>>,
                <<Scalar(0), Scalar(0)>>}}
        \cup {[iterable |-> FALSE, truthy |-> TRUE, items |-> <<>>]}

\* one iterable, two iterables, and three iterables that hold one item each
CtorArgs ==
    {<<a>> : a \in CtorIterables}
        \cup {<<a, b>> : a \in CtorIterables, b \in CtorIterables}
        \cup {<<a, b, c>> : a \in {x \in CtorIterables : Len(x.items) = 1},
                            b \in {x \in CtorIterables : Len(x.items) = 1},
                            c \in {x \in CtorIterables : Len(x.items) = 1}}

\* the tuples offered to the instance once built: of scalars, and with a component
\* that is itself a tuple
CtorInputs == {Tuple(<<0, 0>>), Tuple(<<NonScalar, 0>>), Tuple(<<0, NonScalar>>)}

CtorOthers == {[iterable |-> TRUE, truthy |-> TRUE, items |-> <<e>>] : e \in CtorInputs}

\* the state after IndexSetND(*iterables) returned
InitConstructed ==
    /\ kind = "IndexSetND"
    /\ iterables \in CtorArgs
    /\ IndexSetND__init__(iterables).err = "none"
    /\ _list = IndexSetND__init__(iterables).list
    /\ _set = Range(_list)
    /\ _tuplelen = (IF _list = <<>> THEN Unset ELSE Len(_list[1].v))
    /\ _index_groups = EmptyCache
    /\ _dict = <<>>
    /\ returned = <<>>
    /\ op = "init"
    /\ err = "none"

NextConstructed ==
    \/ \E e \in CtorInputs : Call("append", append(e))
    \/ \E o \in CtorOthers : Call("extend", extend(o))
    \/ \E i \in Indexes, e \in CtorInputs : Call("insert", insert(i, e))
    \/ \E i \in Indexes, e \in CtorInputs : Call("setitem", _setitem_idx(i, e))
    \/ \E sl \in Slices, o \in CtorOthers : Call("setitem", _setitem_slice(sl, o))
    \/ \E o \in CtorOthers : Call("iadd", __iadd__(o))
    \/ \E o \in CtorOthers : Call("add", __add__(o))
    \/ Call("clear", clear)

SpecConstructed == InitConstructed /\ [][NextConstructed]_vars

(***************************************************************************)
(* ParamDict1D and ParamDictND: a dict that owns the index-set of its keys *)
(***************************************************************************)
\* the parameter values offered: two numbers
ParamValues == {0, 1}

\* a value that is neither an int nor a float
NotANumber == -3

\* list(dct.keys())
Keys(dct) == [i \in DOMAIN dct |-> dct[i].key]

\* key in dct
HasKey(dct, key) == \E i \in DOMAIN dct : dct[i].key = key

\* dct[key]
Lookup(dct, key) == dct[CHOOSE i \in DOMAIN dct : dct[i].key = key].value

\* dict.__setitem__: the value of a key already held is replaced in place, a new
\* key goes to the end
DictSet(dct, key, value) ==
    IF HasKey(dct, key)
    THEN [i \in DOMAIN dct |->
            IF dct[i].key = key THEN [key |-> key, value |-> value] ELSE dct[i]]
    ELSE Append(dct, [key |-> key, value |-> value])

\* dict.__delitem__ of a key the dict holds
DictDel(dct, key) == SelectSeq(dct, LAMBDA item : item.key # key)

\* the outcome of a call on the dict: the exception raised (or "none"), the fields
\* of the index-set as the call leaves them (those of out), and the items
DictOut(e, out, dct) ==
    [err |-> e, list |-> out.list, set |-> out.set, tuplelen |-> out.tuplelen,
     groups |-> out.groups, dict |-> dct]

\* an exception raised before the dict or its index-set was touched
DictFail(e) == DictOut(e, Fail(e), _dict)

\* d[key] = value
ParamDict__setitem__(key, value) ==
    IF value = NotANumber THEN DictFail("TypeError")
    ELSE IF key \in _set THEN DictOut("none", Fail("none"), DictSet(_dict, key, value))
    ELSE LET appended == append(key)
         IN  IF appended.err # "none" THEN DictOut(appended.err, appended, _dict)
             ELSE DictOut("none", appended, DictSet(_dict, key, value))

\* del d[key]: the dict first, then the index-set
ParamDict__delitem__(key) ==
    IF ~HasKey(_dict, key) THEN DictFail("KeyError")
    ELSE LET removed == remove(key)
         IN  DictOut(removed.err, removed, DictDel(_dict, key))

\* d.clear()
ParamDict_clear == DictOut("none", clear, <<>>)

\* d.pop(key) and d.pop(key, default): the index-set first, then the dict
ParamDict_pop(key, hasdefault) ==
    IF HasKey(_dict, key)
    THEN LET removed == remove(key)
         IN  IF removed.err # "none" THEN DictOut(removed.err, removed, _dict)
             ELSE DictOut("none", removed, DictDel(_dict, key))
    ELSE IF hasdefault THEN DictFail("none")
    ELSE DictFail("KeyError")

\* d.popitem(): the last item leaves the dict, then its key the index-set
ParamDict_popitem ==
    IF _dict = <<>> THEN DictFail("KeyError")
    ELSE LET removed == remove(_dict[Len(_dict)].key)
         IN  DictOut(removed.err, removed, SubSeq(_dict, 1, Len(_dict) - 1))

\* dict.setdefault
DictSetDefault(dct, key, default) ==
    IF HasKey(dct, key) THEN dct ELSE Append(dct, [key |-> key, value |-> default])

\* d.setdefault(key, default)
ParamDict_setdefault(key, default) ==
    IF default = NotANumber THEN DictFail("TypeError")
    ELSE IF key \in _set
    THEN DictOut("none", Fail("none"), DictSetDefault(_dict, key, default))
    ELSE LET appended == append(key)
         IN  IF appended.err # "none" THEN DictOut(appended.err, appended, _dict)
             ELSE DictOut("none", appended, DictSetDefault(_dict, key, default))

\* d.subset_keys(*pattern): subset of the index-set, its exception re-raised
\* with the same class
subset_keys(pattern) ==
    LET keys == subset(pattern)
    IN  [err |-> keys.err, list |-> keys.list, set |-> keys.set,
         tuplelen |-> keys.tuplelen, groups |-> keys.groups, dict |-> _dict,
         ret |-> keys.ret]

\* d.subset_values(*pattern): the values of the keys subset_keys returns, looked
\* up in the dict (KeyError for a key the dict does not hold)
subset_values(pattern) ==
    LET keys == subset_keys(pattern)
    IN  IF keys.err # "none" THEN keys
        ELSE IF \E i \in DOMAIN keys.ret : ~HasKey(_dict, keys.ret[i])
        THEN [keys EXCEPT !.err = "KeyError", !.ret = <<>>]
        ELSE [keys EXCEPT !.ret = [i \in DOMAIN keys.ret |-> Lookup(_dict, keys.ret[i])]]

\* d.lookup(*key) of ParamDictND: the exception raised and the value returned
\* (ret); reading `_tuplelen` of an index-set that has none raises AttributeError
lookup(key) ==
    LET raised(e) == [err |-> e, list |-> _list, set |-> _set, tuplelen |-> _tuplelen,
                      groups |-> _index_groups, dict |-> _dict, ret |-> 0]
    IN  IF \E i \in DOMAIN key : key[i] = NonScalar THEN raised("TypeError")
        ELSE IF _tuplelen = Unset THEN raised("AttributeError")
        ELSE IF Len(key) # _tuplelen THEN raised("ValueError")
        ELSE [raised("none") EXCEPT
                 !.ret = IF HasKey(_dict, Tuple(key)) THEN Lookup(_dict, Tuple(key)) ELSE 0]

\* dict.update(mapping) of the builtin: the items of the mapping in order
RECURSIVE DictUpdate(_, _)
DictUpdate(dct, mapping) ==
    IF mapping = <<>> THEN dct
    ELSE DictUpdate(DictSet(dct, mapping[1].key, mapping[1].value), Tail(mapping))

\* d |= mapping: dict.__ior__, which ParamDictBase does not override; it fills
\* the dict without calling __setitem__
ParamDict__ior__(mapping) == DictOut("none", Fail("none"), DictUpdate(_dict, mapping))

\* d.update(...), d.copy() and fromkeys(...): not supported
_raise_not_supported_err == DictFail("AttributeError")

(***************************************************************************)
(* Specification: any sequence of calls on one ParamDict                   *)
(***************************************************************************)
\* the keys offered: scalars, tuples of each width, and a hashable collection
\* that is not a tuple (range(2), a frozenset)
DictKeyInputs == Inputs

\* the mappings given to the constructor: up to MaxLen items with distinct keys
Mappings ==
    {m \in UNION {SeqsOfLen([key : DictKeyInputs, value : ParamValues], n) :
                      n \in 0..MaxLen} :
        Cardinality({m[i].key : i \in DOMAIN m}) = Len(m)}

\* the keys given to lookup: up to MaxWidth components, scalars or not
LookupKeys == UNION {SeqsOfLen(Vals \cup {NonScalar}, w) : w \in 0..MaxWidth}

\* a call named o on the dict
DictCall(o, out) ==
    /\ Len(out.list) <= MaxLen
    /\ Len(out.dict) <= MaxLen
    /\ op' = o
    /\ err' = out.err
    /\ _list' = out.list
    /\ _set' = out.set
    /\ _tuplelen' = out.tuplelen
    /\ _index_groups' = out.groups
    /\ _dict' = out.dict
    /\ kind' = kind
    /\ iterables' = iterables
    /\ returned' = returned

\* the state after ParamDict1D(mapping) or ParamDictND(mapping) returned: the
\* index-set is built from the mapping, the dict holds the mapping's items
InitDict ==
    /\ kind \in Classes
    /\ iterables = <<>>
    /\ _dict \in Mappings
    /\ Construct(kind, Keys(_dict)).err = "none"
    /\ _list = Construct(kind, Keys(_dict)).list
    /\ _set = Range(_list)
    /\ _tuplelen = (IF kind = "IndexSetND" /\ _list # <<>> THEN Len(_list[1].v) ELSE Unset)
    /\ _index_groups = EmptyCache
    /\ returned = <<>>
    /\ op = "init"
    /\ err = "none"

NextDict ==
    \/ \E k \in DictKeyInputs, v \in ParamValues \cup {NotANumber} :
          DictCall("setitem", ParamDict__setitem__(k, v))
    \/ \E k \in DictKeyInputs : DictCall("delitem", ParamDict__delitem__(k))
    \/ DictCall("clear", ParamDict_clear)
    \/ \E k \in DictKeyInputs, d \in BOOLEAN : DictCall("pop", ParamDict_pop(k, d))
    \/ DictCall("popitem", ParamDict_popitem)
    \/ \E k \in DictKeyInputs, v \in ParamValues \cup {NotANumber} :
          DictCall("setdefault", ParamDict_setdefault(k, v))
    \/ \E p \in Patterns : kind = "IndexSetND" /\ DictCall("subset_keys", subset_keys(p))
    \/ \E p \in Patterns :
          kind = "IndexSetND" /\ DictCall("subset_values", subset_values(p))
    \/ \E k \in LookupKeys : kind = "IndexSetND" /\ DictCall("lookup", lookup(k))

SpecDict == InitDict /\ [][NextDict]_vars

(***************************************************************************)
(* Specification: the dict operations that can add keys                    *)
(***************************************************************************)
\* the mappings given to `|=`: one item
UnionMappings == {m \in Mappings : Len(m) = 1}

\* the methods ParamDictBase turns off
Unsupported == {"update", "copy", "fromkeys"}

\* a ParamDict built from a mapping whose keys are tuples or scalars
InitUnion ==
    /\ InitDict
    /\ \A i \in DOMAIN _dict : ~IsColl(_dict[i].key)

NextUnion ==
    \/ \E k \in DictKeyInputs, v \in ParamValues \cup {NotANumber} :
          DictCall("setitem", ParamDict__setitem__(k, v))
    \/ \E k \in DictKeyInputs, v \in ParamValues \cup {NotANumber} :
          DictCall("setdefault", ParamDict_setdefault(k, v))
    \/ \E m \in Unsupported : DictCall(m, _raise_not_supported_err)
    \/ \E m \in UnionMappings : DictCall("ior", ParamDict__ior__(m))
    \/ \E k \in DictKeyInputs : DictCall("delitem", ParamDict__delitem__(k))

SpecUnion == InitUnion /\ [][NextUnion]_vars

(***************************************************************************)
(* Specification: queries whose caller changes the list it was handed      *)
(***************************************************************************)
\* the collections the queries run on: the lists of tuples of one width without
\* duplicates
Contents ==
    {b \in Batches :
        /\ b # <<>>
        /\ \A i \in DOMAIN b : b[i].tup /\ Len(b[i].v) = Len(b[1].v)
        /\ ~HasDuplicates(b)}

\* what the caller does with the list subset returned
ListMethods == {"append", "pop", "reverse", "clear"}

\* the queries the caller makes: they group by the first dimension
AliasedPatterns == {p \in Patterns : NonWildIndices(p, 1) \notin QueryDims \ {<<0>>}}

AliasedDims == {d \in DimArgs : d.idx \notin QueryDims \ {<<0>>}}

\* lst after the caller called the method m on it (append with the element e)
Mutated(lst, m, e) ==
    CASE m = "append" -> Append(lst, e)
      [] m = "pop" -> SubSeq(lst, 1, Len(lst) - 1)
      [] m = "reverse" -> ReverseSeq(lst)
      [] m = "clear" -> <<>>

\* subset(*pattern) seen from the caller: when the group mapping holds the given
\* values, the list returned is the list the mapping holds (the same object)
SubsetCall(pattern) ==
    LET out == subset(pattern)
        indices == NonWildIndices(pattern, 1)
        given == SelectSeq(pattern, LAMBDA v : v # Wildcard)
    IN  /\ op' = "subset"
        /\ err' = out.err
        /\ _index_groups' = out.groups
        /\ returned' = IF /\ out.err = "none"
                          /\ \E i \in DOMAIN out.groups[indices] :
                                 out.groups[indices][i].key = given
                       THEN <<indices, given>>
                       ELSE <<>>
        /\ UNCHANGED <<kind, iterables, _list, _set, _tuplelen, _dict>>

\* squeeze(*indices) seen from the caller: the container returned is new
SqueezeCall(dims) ==
    LET out == squeeze(dims)
    IN  /\ op' = "squeeze"
        /\ err' = out.err
        /\ _index_groups' = out.groups
        /\ UNCHANGED <<kind, iterables, _list, _set, _tuplelen, _dict, returned>>

\* the caller calls a list method on the list subset returned: the list is the
\* one stored in the cache
CallerMutates(m, e) ==
    /\ returned # <<>>
    /\ LET d == returned[1]
           group == _index_groups[d]
           changed == [i \in DOMAIN group |->
                          IF group[i].key = returned[2]
                          THEN [key |-> group[i].key,
                                elems |-> Mutated(group[i].elems, m, e)]
                          ELSE group[i]]
       IN  /\ \A i \in DOMAIN changed : Len(changed[i].elems) <= Len(_list)
           /\ _index_groups' = [c \in DOMAIN _index_groups |->
                                   IF c = d THEN changed ELSE _index_groups[c]]
    /\ op' = "caller"
    /\ err' = "none"
    /\ UNCHANGED <<kind, iterables, _list, _set, _tuplelen, _dict, returned>>

\* the state after IndexSetND(contents) returned
InitAliased ==
    /\ kind = "IndexSetND"
    /\ iterables = <<>>
    /\ _list \in Contents
    /\ _set = Range(_list)
    /\ _tuplelen = Len(_list[1].v)
    /\ _index_groups = EmptyCache
    /\ _dict = <<>>
    /\ returned = <<>>
    /\ op = "init"
    /\ err = "none"

NextAliased ==
    \/ \E p \in AliasedPatterns : SubsetCall(p)
    \/ \E d \in AliasedDims : SqueezeCall(d)
    \/ \E m \in ListMethods : CallerMutates(m, _list[1])

SpecAliased == InitAliased /\ [][NextAliased]_vars

(***************************************************************************)
(* Reference definitions the claims compare the code with                  *)
(***************************************************************************)
\* [e for e in lst if all(e[i] == p or p == '*' for i, p in enumerate(pattern))]
LinearScan(lst, pattern) ==
    SelectSeq(lst, LAMBDA e :
        \A i \in DOMAIN pattern : pattern[i] = Wildcard \/ e.v[i] = pattern[i])

\* the distinct values of a sequence, in the order of their first occurrence
RECURSIVE FirstOccurrences(_)
FirstOccurrences(sq) ==
    IF sq = <<>> THEN <<>>
    ELSE LET front == FirstOccurrences(SubSeq(sq, 1, Len(sq) - 1))
         IN  IF sq[Len(sq)] \in Range(front) THEN front ELSE Append(front, sq[Len(sq)])

\* the elements a naive scan gives for a squeeze on indices
NaiveSqueeze(lst, indices) ==
    LET keys == FirstOccurrences([i \in DOMAIN lst |-> Project(lst[i], indices)])
    IN  [i \in DOMAIN keys |->
            IF Len(indices) = 1 THEN Scalar(keys[i][1]) ELSE Tuple(keys[i])]

\* a pattern subset accepts in the current state
ValidPattern(p) ==
    /\ Len(p) = _tuplelen
    /\ \A i \in DOMAIN p : p[i] # NonScalar
    /\ \E i \in DOMAIN p : p[i] = Wildcard
    /\ \E i \in DOMAIN p : p[i] # Wildcard

\* indices squeeze accepts in the current state
ValidDims(d) ==
    /\ d.ints
    /\ Len(d.idx) >= 1
    /\ Len(d.idx) # _tuplelen
    /\ \A i \in DOMAIN d.idx : d.idx[i] \in 0..(_tuplelen - 1)

\* names squeeze and the constructors accept for the indices
ValidNames(d) == NamesError(d.idx, d.names).err = "none"

Populated == kind = "IndexSetND" /\ _list # <<>>

(***************************************************************************)
(* Claims                                                                  *)
(***************************************************************************)
\* C1: right after a successful append, extend, insert, index or slice
\* assignment, index or slice deletion, remove, pop, clear, `+` or `+=` on an
\* IndexSetND, every valid subset and squeeze call returns the result for the
\* collection's contents as the mutation left them.
C1_QueriesFreshAfterMutation ==
    (Populated /\ op \in Mutators \cup {"add"} /\ err = "none") =>
        /\ \A p \in Patterns : ValidPattern(p) => subset(p).ret = LinearScan(_list, p)
        /\ \A d \in DimArgs :
              ValidDims(d) /\ ValidNames(d) => squeeze(d).ret = NaiveSqueeze(_list, d.idx)

\* C2: every entry of the grouping cache equals the group mapping built from
\* scratch from the current element list (same keys in the same first-occurrence
\* order, same elements in the same relative order).
C2_CacheEntriesFresh ==
    \A d \in DOMAIN _index_groups : _index_groups[d] = BuildGroup(_list, d)

\* C3: on a non-empty IndexSetND, subset(*pattern) with a valid pattern returns
\* the list a linear scan of the collection in its current order gives.
C3_SubsetIsLinearScan ==
    Populated =>
        \A p \in Patterns :
            ValidPattern(p) =>
                subset(p).err = "none" /\ subset(p).ret = LinearScan(_list, p)

\* C4: on a non-empty IndexSetND, squeeze(*indices) with valid indices returns a
\* container (IndexSet1D for one index, IndexSetND for several) holding the
\* distinct projections of the current elements, ordered by first occurrence in
\* the collection's current order.
C4_SqueezeIsNaiveProjection ==
    Populated =>
        \A d \in DimArgs :
            ValidDims(d) /\ ValidNames(d) =>
                /\ squeeze(d).err = "none"
                /\ squeeze(d).cls = IF Len(d.idx) = 1 THEN "IndexSet1D" ELSE "IndexSetND"
                /\ squeeze(d).ret = NaiveSqueeze(_list, d.idx)

C7_UniformTupleWidth ==
    Populated =>
        /\ _tuplelen # Unset
        /\ \A i \in DOMAIN _list : _list[i].tup /\ Len(_list[i].v) = _tuplelen

\* C7 witness: an extend rejected for a wrong width on a collection of two tuples
C7_Witness ==
    /\ Populated
    /\ op = "extend"
    /\ err = "ValueError"
    /\ Len(_list) = 2
    /\ _tuplelen = MaxWidth

\* C8: whenever an IndexSetND becomes completely empty (clear, pop, remove,
\* `del s[i]`, `del s[slice]`), its tuple width becomes undefined.
C8_EmptiedMeansWidthUndefined ==
    [][(kind = "IndexSetND" /\ _list # <<>> /\ _list' = <<>>) => _tuplelen' = Unset]_vars

\* C9 as stated: after every successful structural mutation of an IndexSetND
\* (`+=` included) the grouping cache holds no entry.
C9_CacheEmptyAfterMutation ==
    [][(kind = "IndexSetND" /\ op' \in Mutators /\ err' = "none") =>
          _index_groups' = EmptyCache]_vars

\* C9 amended: after every successful structural mutation of an IndexSetND other
\* than a `+=` whose operand is empty (which adds nothing), the grouping cache
\* holds no entry.
C9_CacheEmptyAfterEffectiveMutation ==
    [][(/\ kind = "IndexSetND"
        /\ op' \in Mutators
        /\ err' = "none"
        /\ ~(op' = "iadd" /\ _list' = _list)) =>
          _index_groups' = EmptyCache]_vars

\* C9 witness: a successful deletion that left one element and an empty cache
C9_Witness ==
    /\ Populated
    /\ op = "delitem"
    /\ err = "none"
    /\ _index_groups = EmptyCache

\* C10: a subset or squeeze call keeps every entry the cache already holds, so a
\* second `_groupby(*d)` with only queries in between returns the mapping the
\* first one returned.
C10_QueriesKeepCachedGroups ==
    [][op' \in Queries =>
          \A d \in DOMAIN _index_groups :
              /\ d \in DOMAIN _index_groups'
              /\ _index_groups'[d] = _index_groups[d]
              /\ (_groupby(d).group)' = _groupby(d).group]_vars

\* C10 witness: a successful squeeze with two dimension combinations cached
C10_Witness ==
    /\ op = "squeeze"
    /\ err = "none"
    /\ Cardinality(DOMAIN _index_groups) >= 2

\* C11: subset(*pattern) reports, in this order of precedence, an empty collection
\* (LookupError), a non-scalar pattern value (TypeError), a pattern length
\* different from the tuple width (ValueError), a pattern of only wildcards or
\* without wildcard (ValueError); a pattern that passes them all never raises; a
\* failing call changes neither the elements nor the cache.
C11_SubsetErrorPrecedence ==
    kind = "IndexSetND" =>
        \A p \in Patterns :
            LET r == subset(p)
                nonscalar == \E i \in DOMAIN p : p[i] = NonScalar
                wild == {i \in DOMAIN p : p[i] = Wildcard}
            IN  /\ r.err = (IF _list = <<>> THEN "LookupError"
                            ELSE IF nonscalar THEN "TypeError"
                            ELSE IF Len(p) # _tuplelen THEN "ValueError"
                            ELSE IF wild = DOMAIN p \/ wild = {} THEN "ValueError"
                            ELSE "none")
                /\ r.msg = (IF _list = <<>> THEN "is empty"
                            ELSE IF nonscalar THEN "pattern values must be scalars"
                            ELSE IF Len(p) # _tuplelen THEN "pattern length must be the same"
                            ELSE IF wild = DOMAIN p THEN "pattern cannot have all wildcards"
                            ELSE IF wild = {} THEN "pattern cannot have no wildcards"
                            ELSE "")
                /\ r.err # "none" =>
                       /\ r.list = _list
                       /\ r.set = _set
                       /\ r.groups = _index_groups
                /\ r.err = "none" => r.list = _list /\ r.set = _set

\* C11 witness: a subset call rejected with TypeError on a populated collection
\* whose cache holds an entry
C11_Witness ==
    /\ Populated
    /\ op = "subset"
    /\ err = "TypeError"
    /\ DOMAIN _index_groups # {}

\* the error and message the five argument checks of squeeze give for d, in the
\* claimed order of precedence ("none" when d passes them)
C12_Expected(d) ==
    IF _list = <<>> THEN [err |-> "LookupError", msg |-> "is empty"]
    ELSE IF ~d.ints
    THEN [err |-> "TypeError", msg |-> "dimension indices should be integers"]
    ELSE IF d.idx = <<>>
    THEN [err |-> "ValueError", msg |-> "dimension indices are required"]
    ELSE IF \E i \in DOMAIN d.idx : d.idx[i] < 0 \/ d.idx[i] >= _tuplelen
    THEN [err |-> "ValueError", msg |-> "dimension indices are invalid"]
    ELSE IF Len(d.idx) = _tuplelen
    THEN [err |-> "ValueError", msg |-> "does not work with all dimension indices"]
    ELSE [err |-> "none", msg |-> ""]

\* C12 as stated: squeeze reports, in this order of precedence, an empty
\* collection (LookupError), a non-integer index (TypeError), no index
\* (ValueError), an invalid position (ValueError), as many indices as the tuple
\* width (ValueError); every call that passes these checks returns a container;
\* a failing call changes neither the elements nor the cache.
C12_SqueezeErrorsAsStated ==
    kind = "IndexSetND" =>
        \A d \in DimArgs :
            LET r == squeeze(d)
            IN  /\ r.err = C12_Expected(d).err
                /\ r.err = "none" => r.cls \in Classes
                /\ r.list = _list /\ r.set = _set
                /\ r.err # "none" => r.groups = _index_groups

\* C12 amended: the five checks are reported in the stated order; a call that
\* passes them returns a container unless its names are rejected (more than one
\* name for one index: ValueError; a name that is not a string: TypeError); no
\* failing call changes the elements; a call failing one of the five checks
\* leaves the cache as it was, a call rejected for its names leaves the group
\* mapping it built for the indices in the cache.
C12_SqueezeErrorPrecedence ==
    kind = "IndexSetND" =>
        \A d \in DimArgs :
            LET r == squeeze(d)
                e == C12_Expected(d)
                n == NamesError(d.idx, d.names)
            IN  /\ e.err # "none" =>
                       /\ r.err = e.err /\ r.msg = e.msg
                       /\ r.groups = _index_groups
                /\ (e.err = "none" /\ n.err # "none") =>
                       /\ r.err = n.err /\ r.msg = n.msg
                       /\ DOMAIN r.groups = DOMAIN _index_groups \cup {d.idx}
                       /\ \A q \in DOMAIN _index_groups : r.groups[q] = _index_groups[q]
                /\ (e.err = "none" /\ n.err = "none") =>
                       /\ r.err = "none"
                       /\ r.cls = IF Len(d.idx) = 1 THEN "IndexSet1D" ELSE "IndexSetND"
                /\ r.list = _list /\ r.set = _set

\* C12 witness: a squeeze rejected for a non-integer index on a populated
\* collection (a rejection for the names would have left a cache entry)
C12_Witness ==
    /\ Populated
    /\ op = "squeeze"
    /\ err = "TypeError"
    /\ _index_groups = EmptyCache

\* The calls that offer a batch of elements to the IndexSetND s, or to a new
\* IndexSetND: the batch, the list that would result (res), whether the receiving
\* collection is empty (onempty), whether the receiver is a constructor
\* (construct), the error raised (err) and whether nothing was added (nothing).
C13_Call(b, res, c, e, n) ==
    [batch |-> b, res |-> res, onempty |-> c \/ _list = <<>>, construct |-> c,
     err |-> e, nothing |-> n]

\* P holds of every call that offers a batch of the model to the collection
C13_Calls(P(_)) ==
    /\ \A e \in Inputs :
          LET r == append(e)
          IN  P(C13_Call(<<e>>, _list \o <<e>>, FALSE, r.err, r.list = _list))
    /\ \A o \in {x \in Others : x.iterable} :
          LET r == extend(o)
          IN  P(C13_Call(o.items, _list \o o.items, FALSE, r.err, r.list = _list))
    /\ \A i \in Indexes, e \in Inputs :
          LET r == insert(i, e)
          IN  P(C13_Call(<<e>>, InsertAt(_list, i, e), FALSE, r.err, r.list = _list))
    /\ \A i \in {j \in Indexes : ValidIndex(j, Len(_list))}, e \in Inputs :
          LET r == _setitem_idx(i, e)
          IN  P(C13_Call(<<e>>, SetIdx(_list, i, e), FALSE, r.err, r.list = _list))
    /\ \A sl \in Slices, o \in {x \in Others : x.iterable} :
          LET r == _setitem_slice(sl, o)
          IN  P(C13_Call(o.items, SetSlice(_list, sl, o.items), FALSE, r.err,
                         r.list = _list))
    /\ \A o \in {x \in Others : x.iterable /\ x.truthy} :
          LET r == __iadd__(o)
          IN  P(C13_Call(o.items, _list \o o.items, FALSE, r.err, r.list = _list))
    /\ \A o \in {x \in Others : x.iterable /\ x.truthy} :
          LET r == __add__(o)
          IN  P(C13_Call(o.items, _list \o o.items, _list = <<>>, r.new.err,
                         r.list = _list /\ r.new.list = <<>>))
    /\ \A b \in Batches :
          LET r == Construct("IndexSetND", b)
          IN  P(C13_Call(b, b, TRUE, r.err, r.list = <<>>))

\* (a) every element of the batch is a tuple
C13_AllTuples(b) == \A i \in DOMAIN b : b[i].tup

\* (b) every element has the established width, or all share one width when the
\* receiving collection is empty
C13_WidthOk(c) ==
    IF c.onempty THEN Cardinality({Len(c.batch[i].v) : i \in DOMAIN c.batch}) <= 1
    ELSE \A i \in DOMAIN c.batch : Len(c.batch[i].v) = Len(_list[1].v)

\* the call c makes the checks (a), (b), (c) in that order, accepts the batch only
\* if all three pass and adds nothing when it rejects it
C13_Checked(c) ==
    /\ ~C13_AllTuples(c.batch) => c.err = "TypeError"
    /\ (C13_AllTuples(c.batch) /\ ~C13_WidthOk(c)) => c.err = "ValueError"
    /\ (C13_AllTuples(c.batch) /\ C13_WidthOk(c) /\ HasDuplicates(c.res)) =>
           c.err = "ValueError"
    /\ c.err = "none" =>
           C13_AllTuples(c.batch) /\ C13_WidthOk(c) /\ ~HasDuplicates(c.res)
    /\ c.err # "none" => c.nothing

\* C13 as stated: a batch offered to an IndexSetND is accepted only if (a) its
\* elements are all tuples, else TypeError, (b) they have the established width
\* (one common width on an empty collection), else ValueError, (c) the resulting
\* collection has no duplicate, else ValueError; the checks are made in that
\* order and a rejected batch adds nothing.
C13_BatchChecksAsStated == kind = "IndexSetND" => C13_Calls(C13_Checked)

\* the batch as a constructor takes it: a batch made only of non-tuple, non-string
\* collections is coerced to tuples
C13_Coerced(c) ==
    IF c.construct /\ c.batch # <<>> /\ \A i \in DOMAIN c.batch : IsColl(c.batch[i])
    THEN [c EXCEPT !.batch = [i \in DOMAIN c.batch |-> Tuple(c.batch[i].v)],
                   !.res = [i \in DOMAIN c.res |-> Tuple(c.res[i].v)]]
    ELSE c

C13_CheckedCoerced(x) == C13_Checked(C13_Coerced(x))

\* C13 amended: the same, except that a constructor (also the one `s + other`
\* calls for an empty s) first coerces a batch made only of non-tuple, non-string
\* collections to tuples and applies (a), (b), (c) to the coerced batch.
C13_BatchChecks == kind = "IndexSetND" => C13_Calls(C13_CheckedCoerced)

\* C13 witness: an extend rejected for a non-tuple element on a populated IndexSetND
C13_Witness ==
    /\ Populated
    /\ op = "extend"
    /\ err = "TypeError"
    /\ Len(_list) = 2

\* C14: extend is all-or-nothing.  For a batch whose elements pass validation: if
\* it has a duplicate within itself or against the collection, extend fails with
\* ValueError and adds nothing; otherwise every element is appended after the
\* existing ones in the batch's order.  No failing extend adds an element.
C14_ExtendAllOrNothing ==
    \A o \in {x \in Others : x.iterable} :
        LET r == extend(o)
            valid == _validate_elements(kind, _tuplelen, o.items).err = "none"
        IN  /\ (valid /\ HasDuplicates(_list \o o.items)) => r.err = "ValueError"
            /\ (valid /\ ~HasDuplicates(_list \o o.items)) =>
                   /\ r.err = "none"
                   /\ r.list = _list \o o.items
                   /\ r.set = Range(r.list)
            /\ r.err # "none" => r.list = _list /\ r.set = _set

\* C14 witness: an extend of an IndexSet1D of one element rejected for a duplicate
C14_Witness ==
    /\ kind = "IndexSet1D"
    /\ op = "extend"
    /\ err = "ValueError"
    /\ Len(_list) = 1

\* C15: `s[i] = v` with a valid index i and a valid element v: if v equals an
\* element at another position it fails with ValueError and the list and the set
\* are as before; if v is not in the collection or equals the element at
\* position i it succeeds, only position i changes and the set is the set of the
\* new list.
C15_IndexAssignment ==
    \A i \in {j \in Indexes : ValidIndex(j, Len(_list))} :
        \A v \in {e \in Inputs : _validate_elements(kind, _tuplelen, <<e>>).err = "none"} :
            LET r == _setitem_idx(i, v)
                elsewhere == \E q \in DOMAIN _list : q # Pos(i, Len(_list)) /\ _list[q] = v
            IN  /\ elsewhere => r.err = "ValueError" /\ r.list = _list /\ r.set = _set
                /\ ~elsewhere =>
                       /\ r.err = "none"
                       /\ r.list = [q \in DOMAIN _list |->
                                       IF q = Pos(i, Len(_list)) THEN v ELSE _list[q]]
                       /\ r.set = Range(r.list)

\* C15 witness: an assignment that succeeded on an IndexSet1D of two elements
C15_Witness ==
    /\ kind = "IndexSet1D"
    /\ op = "setitem"
    /\ err = "none"
    /\ Len(_list) = 2

C17_ConcatLeavesOperand ==
    \A o \in Others :
        LET a == __add__(o)
            i == __iadd__(o)
            val == _validate_elements(kind, _tuplelen, o.items)
            coerced == [k \in DOMAIN o.items |-> Tuple(o.items[k].v)]
        IN  /\ a.list = _list
            /\ a.set = _set
            /\ a.tuplelen = _tuplelen
            /\ a.groups = _index_groups
            /\ a.err = "none" =>
                   \/ a.new.list = _list \o o.items
                   \/ /\ \A k \in DOMAIN o.items : IsColl(o.items[k])
                      /\ a.new.list = _list \o coerced
            /\ (o.truthy /\ o.iterable /\ val.err = "none" /\ i.err # "none") =>
                   /\ i.err = "ValueError"
                   /\ i.list = _list
                   /\ i.set = _set
                   /\ i.tuplelen = _tuplelen
                   /\ i.groups = _index_groups

\* C18: `s + other` and `s += other` fail with TypeError for every `other` that
\* cannot be iterated, whatever its value (falsy ones such as 0 or None included),
\* and return no collection in that case.
C18_NotIterableRejected ==
    \A o \in {x \in Others : ~x.iterable} :
        /\ __add__(o).err = "TypeError"
        /\ __iadd__(o).err = "TypeError"

\* C19: for an operand b of the same class, a < b, a <= b, a == b, a != b, a > b,
\* a >= b are the proper-subset, subset, equality, inequality, proper-superset and
\* superset relations of the sets of the current elements, whatever their order
\* and the calls made before.
C19_ComparisonsAreSetRelations ==
    \A o \in {x \in Operands : x.type = kind} :
        LET a == Range(_list)
            b == o.set
            is(c, v) == Compare(c, o).err = "none" /\ Compare(c, o).result = v
        IN  /\ is("<", a \subseteq b /\ a # b)
            /\ is("<=", a \subseteq b)
            /\ is("==", a = b)
            /\ is("!=", a # b)
            /\ is(">", b \subseteq a /\ a # b)
            /\ is(">=", b \subseteq a)

\* C19 witness: a comparison made on an IndexSet1D of two elements returned
C19_Witness ==
    /\ kind = "IndexSet1D"
    /\ op = "compare"
    /\ err = "none"
    /\ Len(_list) = 2

\* C20 as stated: every comparison with an object that is not an instance of the
\* same class fails with TypeError.
C20_IncomparableAsStated ==
    \A c \in Comparisons :
        \A o \in {x \in Operands : x.type # kind} :
            Compare(c, o).err = "TypeError"

\* `<=` of an IndexSetND with a tuple whose members all are IndexSet1D
C20_SparseCheck(c, o) ==
    kind = "IndexSetND" /\ c = "<=" /\ o.type = "tuple" /\ o.all1D

\* C20: every comparison with an object that is not an instance of the same class
\* fails with TypeError and changes nothing, except `<=` of an IndexSetND with a
\* tuple of IndexSet1D (the empty tuple included), which never fails so.
C20_IncomparableTypes ==
    \A c \in Comparisons :
        \A o \in {x \in Operands : x.type # kind} :
            LET r == Compare(c, o)
            IN  IF C20_SparseCheck(c, o)
                THEN r.err # "TypeError"
                ELSE /\ r.err = "TypeError"
                     /\ r.groups = _index_groups

\* C20 witness: a comparison on a populated IndexSetND failed with TypeError
C20_Witness ==
    /\ kind = "IndexSetND"
    /\ op = "compare"
    /\ err = "TypeError"
    /\ Len(_list) = 2

\* C21: for an IndexSetND s and a tuple t of IndexSet1D, `s <= t` fails with
\* LookupError when s is empty, with ValueError when s is non-empty and len(t)
\* differs from the tuple width; otherwise, for every width n >= 1, it returns
\* true exactly when, for every dimension i < n, every value at position i of an
\* element of s is a member of t[i].
C21_SparseSubsetCheck ==
    kind = "IndexSetND" =>
        \A t \in {o \in Sparse : o.type = "tuple"} :
            LET r == __le__(t)
                n == Len(t.sets)
            IN  IF _list = <<>> THEN r.err = "LookupError"
                ELSE IF n # Len(_list[1].v) THEN r.err = "ValueError"
                ELSE /\ r.err = "none"
                     /\ r.result =
                            \A i \in 1..n : \A k \in DOMAIN _list :
                                Scalar(_list[k].v[i]) \in t.sets[i]

\* C22: constructing an IndexSetND from k >= 2 iterables yields the rows of their
\* Cartesian product in product order, each row flattened into a flat tuple, so
\* that every element has the same width, the sum of the widths contributed by
\* the inputs, whichever of the rows are nested.
C22_ProductRowsFlattened ==
    (op = "init" /\ Len(iterables) >= 2) =>
        LET rows == product(iterables)
        IN  /\ _list = [k \in DOMAIN rows |-> Tuple(_flatten(rows[k]))]
            /\ \A k \in DOMAIN _list :
                   /\ Len(_list[k].v) = Len(_list[1].v)
                   /\ \A i \in DOMAIN _list[k].v : _list[k].v[i] # NonScalar

\* C23: in every reachable state of an IndexSetND every element is a tuple whose
\* components all are scalars, whether it came from the constructor or from a
\* later append, extend, insert, assignment or concatenation.
C23_ComponentsAreScalars ==
    kind = "IndexSetND" =>
        \A k \in DOMAIN _list :
            /\ _list[k].tup
            /\ \A i \in DOMAIN _list[k].v : _list[k].v[i] # NonScalar

\* the outcomes of every call of the operations C24 names, from the current state
C24_Calls ==
    {ParamDict__setitem__(k, v) : k \in DictKeyInputs, v \in ParamValues \cup {NotANumber}}
        \cup {ParamDict__delitem__(k) : k \in DictKeyInputs}
        \cup {ParamDict_pop(k, d) : k \in DictKeyInputs, d \in BOOLEAN}
        \cup {ParamDict_setdefault(k, v) :
                  k \in DictKeyInputs, v \in ParamValues \cup {NotANumber}}
        \cup {ParamDict_popitem, ParamDict_clear}

\* C24: for a ParamDict1D or ParamDictND, in every state reached by item
\* assignment, item deletion, pop, popitem, setdefault and clear, the keys of the
\* dict in insertion order are the elements of its index-set in order, and a call
\* that raises leaves the dict and the index-set as they were
C24_DictMirrorsIndexSet ==
    /\ Keys(_dict) = _list
    /\ \A c \in C24_Calls :
           c.err # "none" => c.dict = _dict /\ c.list = _list /\ c.set = _set

\* the items of the dict whose key matches the pattern, in key order
C25_Matching(pattern) ==
    SelectSeq(_dict, LAMBDA item :
        \A i \in DOMAIN pattern : pattern[i] = Wildcard \/ item.key.v[i] = pattern[i])

\* a pattern of scalars with one value for each dimension of the keys, some but
\* not all of them wildcards
C25_ValidPattern(p) ==
    /\ Len(p) = Len(_dict[1].key.v)
    /\ \A i \in DOMAIN p : p[i] # NonScalar
    /\ \E i \in DOMAIN p : p[i] = Wildcard
    /\ \E i \in DOMAIN p : p[i] # Wildcard

\* C25: in every state of a non-empty ParamDictND, subset_keys returns the keys
\* the dict holds that match the pattern, in key order, and subset_values the
\* values the dict holds for those keys in the same order, whatever assignments,
\* deletions and subset queries came before; after clear both raise LookupError
C25_SubsetOfCurrentItems ==
    kind = "IndexSetND" =>
        IF _dict = <<>>
        THEN op = "clear" =>
                 \A p \in Patterns : /\ subset_keys(p).err = "LookupError"
                                     /\ subset_values(p).err = "LookupError"
        ELSE \A p \in Patterns :
                 C25_ValidPattern(p) =>
                     LET held == C25_Matching(p)
                     IN  /\ subset_keys(p).err = "none"
                         /\ subset_keys(p).ret = Keys(held)
                         /\ subset_values(p).err = "none"
                         /\ subset_values(p).ret = [i \in DOMAIN held |-> held[i].value]

\* C26: on a non-empty IndexSetND, a subset call whose pattern is valid and
\* matches no element returns the empty list and leaves the group mapping of its
\* dimension combination with the keys _groupby gives it, no key added; and every
\* element a valid squeeze returns is the projection of an element of the
\* collection
C26_NoMatchAddsNoKey ==
    Populated =>
        /\ \A p \in Patterns :
               (ValidPattern(p) /\ LinearScan(_list, p) = <<>>) =>
                   /\ subset(p).err = "none"
                   /\ subset(p).ret = <<>>
                   /\ subset(p).groups = _groupby(NonWildIndices(p, 1)).groups
        /\ \A d \in DimArgs :
               (ValidDims(d) /\ ValidNames(d)) =>
                   Range(squeeze(d).ret) \subseteq Range(NaiveSqueeze(_list, d.idx))

\* C26 witness: a subset call returned, the mapping it grouped by is cached, and
\* a valid pattern on the cached dimensions matches no element
C26_Witness ==
    /\ Populated
    /\ op = "subset"
    /\ err = "none"
    /\ \E p \in Patterns :
           /\ ValidPattern(p)
           /\ LinearScan(_list, p) = <<>>
           /\ NonWildIndices(p, 1) \in DOMAIN _index_groups

\* the tuples of one or two valid dimension indices of the current elements, in
\* any order and with repetition
C27_Dims ==
    LET valid == 0..(Len(_list[1].v) - 1)
    IN  {<<i>> : i \in valid} \cup {<<i, j>> : i \in valid, j \in valid}

\* C27: on a non-empty IndexSetND, for every tuple d of valid dimension indices
\* that is not cached, the mapping _groupby(*d) returns has distinct keys, each
\* group holds exactly the elements whose projection onto d is its key, in their
\* order in the collection (so every element is in exactly one group), no group
\* is empty, and the cache afterwards holds the mapping under d and its other
\* entries as before
C27_GroupbyPartitions ==
    Populated =>
        \A d \in C27_Dims \ DOMAIN _index_groups :
            LET built == _groupby(d)
                group == built.group
            IN  /\ \A i, j \in DOMAIN group : group[i].key = group[j].key => i = j
                /\ \A i \in DOMAIN group :
                       /\ group[i].elems # <<>>
                       /\ group[i].elems =
                              SelectSeq(_list, LAMBDA e : Project(e, d) = group[i].key)
                /\ \A k \in DOMAIN _list :
                       \E i \in DOMAIN group : group[i].key = Project(_list[k], d)
                /\ DOMAIN built.groups = DOMAIN _index_groups \cup {d}
                /\ built.groups[d] = group
                /\ \A c \in DOMAIN _index_groups : built.groups[c] = _index_groups[c]

\* C27 witness: a query built and cached a mapping with a group of two elements
\* while another valid dimension combination is not cached
C27_Witness ==
    /\ Populated
    /\ op \in Queries
    /\ err = "none"
    /\ C27_Dims \ DOMAIN _index_groups # {}
    /\ \E d \in DOMAIN _index_groups :
           \E i \in DOMAIN _index_groups[d] : Len(_index_groups[d][i].elems) = 2

\* C28: whatever the caller does with the lists subset returned, on the
\* collection as it was built every valid subset call returns the list a scan of
\* the collection gives and every valid squeeze call the projections of its
\* elements
C28_CacheNotChangedFromOutside ==
    /\ \A p \in Patterns :
           ValidPattern(p) =>
               subset(p).err = "none" /\ subset(p).ret = LinearScan(_list, p)
    /\ \A d \in DimArgs :
           (ValidDims(d) /\ ValidNames(d)) =>
               squeeze(d).err = "none" /\ squeeze(d).ret = NaiveSqueeze(_list, d.idx)

\* new is old with the elements at the positions lo..hi taken out and the
\* elements added put in their place, every other element where it was relative
\* to the others
C29_Replaced(old, new, lo, hi, added) ==
    /\ Len(new) = Len(old) - (hi - lo + 1) + Len(added)
    /\ \A q \in DOMAIN new :
           new[q] = IF q < lo THEN old[q]
                    ELSE IF q < lo + Len(added) THEN added[q - lo + 1]
                    ELSE old[q - Len(added) + (hi - lo + 1)]

\* the 1-based position a Python index addresses in a list of n elements
C29_At(i, n) == IF i < 0 THEN n + i + 1 ELSE i + 1

\* the 1-based position list.insert puts an element at
C29_InsertAt(i, n) == IF i < 0 THEN Max2(n + i, 0) + 1 ELSE Min2(i, n) + 1

\* C29: every mutating operation but sort and reverse keeps the elements that
\* stay in the order they had.  When it succeeds, append and extend (and `+=`)
\* put the new elements after all the others in the order given, insert puts the
\* element at the addressed position (clamped to the ends), index assignment
\* replaces the addressed element in place, slice assignment replaces the
\* addressed run by the new elements, and remove, pop and index or slice deletion
\* take out the addressed elements and nothing else
C29_OrderPreserved ==
    LET n == Len(_list)
    IN  /\ \A e \in Inputs :
               /\ append(e).err = "none" =>
                      C29_Replaced(_list, append(e).list, n + 1, n, <<e>>)
               /\ remove(e).err = "none" =>
                      \E q \in 1..n : /\ _list[q] = e
                                      /\ C29_Replaced(_list, remove(e).list, q, q, <<>>)
        /\ \A o \in Others :
               /\ extend(o).err = "none" =>
                      C29_Replaced(_list, extend(o).list, n + 1, n, o.items)
               /\ __iadd__(o).err = "none" =>
                      C29_Replaced(_list, __iadd__(o).list, n + 1, n, o.items)
        /\ \A i \in Indexes, e \in Inputs :
               /\ insert(i, e).err = "none" =>
                      C29_Replaced(_list, insert(i, e).list,
                                   C29_InsertAt(i, n), C29_InsertAt(i, n) - 1, <<e>>)
               /\ _setitem_idx(i, e).err = "none" =>
                      C29_Replaced(_list, _setitem_idx(i, e).list,
                                   C29_At(i, n), C29_At(i, n), <<e>>)
        /\ \A sl \in Slices, o \in Others :
               _setitem_slice(sl, o).err = "none" =>
                   C29_Replaced(_list, _setitem_slice(sl, o).list,
                                SliceLo(sl, n) + 1, SliceHi(sl, n), o.items)
        /\ \A i \in Indexes :
               /\ pop(i).err = "none" =>
                      C29_Replaced(_list, pop(i).list, C29_At(i, n), C29_At(i, n), <<>>)
               /\ delitem_idx(i).err = "none" =>
                      C29_Replaced(_list, delitem_idx(i).list,
                                   C29_At(i, n), C29_At(i, n), <<>>)
        /\ \A sl \in Slices :
               delitem_slice(sl).err = "none" =>
                   C29_Replaced(_list, delitem_slice(sl).list,
                                SliceLo(sl, n) + 1, SliceHi(sl, n), <<>>)

\* C29 witness: an insert succeeded on a collection that held an element
C29_Witness == op = "insert" /\ err = "none" /\ Len(_list) = 2

\* C30: on an empty IndexSetND whose tuple width is undefined, a call of extend,
\* `+=`, slice assignment or index assignment that raises leaves the width
\* undefined
C30_FailureLeavesWidthUndefined ==
    (kind = "IndexSetND" /\ _list = <<>> /\ _tuplelen = Unset) =>
        /\ \A o \in Others :
               /\ extend(o).err # "none" => extend(o).tuplelen = Unset
               /\ __iadd__(o).err # "none" => __iadd__(o).tuplelen = Unset
               /\ \A sl \in Slices :
                      _setitem_slice(sl, o).err # "none" =>
                          _setitem_slice(sl, o).tuplelen = Unset
        /\ \A i \in Indexes, e \in Inputs :
               _setitem_idx(i, e).err # "none" => _setitem_idx(i, e).tuplelen = Unset

\* C31: in every state of an IndexSetND and for every slice, deletion by slice
\* raises no error and leaves the collection without the addressed elements (as
\* it was when the slice addresses none, the empty collection included)
C31_SliceDeletionSucceeds ==
    kind = "IndexSetND" =>
        \A sl \in Slices :
            /\ delitem_slice(sl).err = "none"
            /\ C29_Replaced(_list, delitem_slice(sl).list,
                            SliceLo(sl, Len(_list)) + 1, SliceHi(sl, Len(_list)), <<>>)

\* C32: in every state of an IndexSetND and for every iterable that holds no
\* element, extend raises nothing and leaves the elements as they were, slice
\* assignment raises nothing and takes out the addressed elements, and `+` and
\* `+=` raise nothing and give the elements of the collection
C32_EmptyBatchAccepted ==
    kind = "IndexSetND" =>
        \A o \in {x \in Others : x.iterable /\ x.items = <<>>} :
            /\ extend(o).err = "none"
            /\ extend(o).list = _list
            /\ \A sl \in Slices :
                   /\ _setitem_slice(sl, o).err = "none"
                   /\ C29_Replaced(_list, _setitem_slice(sl, o).list,
                                   SliceLo(sl, Len(_list)) + 1, SliceHi(sl, Len(_list)),
                                   <<>>)
            /\ __iadd__(o).err = "none"
            /\ __iadd__(o).list = _list
            /\ __add__(o).err = "none"
            /\ __add__(o).new.list = _list

\* C33: in every state of a ParamDictND, the empty one included, lookup raises
\* TypeError for a key with a non-scalar component, ValueError for a key whose
\* length differs from that of the stored keys, and nothing else; otherwise it
\* returns the value stored for the key, or 0 when the dict does not hold it
C33_LookupTotal ==
    kind = "IndexSetND" =>
        \A k \in LookupKeys :
            IF \E i \in DOMAIN k : k[i] = NonScalar
            THEN lookup(k).err = "TypeError"
            ELSE IF _dict # <<>> /\ Len(k) # Len(_dict[1].key.v)
            THEN lookup(k).err = "ValueError"
            ELSE /\ lookup(k).err = "none"
                 /\ lookup(k).ret = IF HasKey(_dict, Tuple(k))
                                    THEN Lookup(_dict, Tuple(k)) ELSE 0

\* C34: in every state of a ParamDict, whichever operations that can add keys
\* were called (item assignment, setdefault, the rejected update, copy and
\* fromkeys, and the in-place union), every key of the dict is an element of its
\* index-set
C34_NoKeyWithoutIndex == \A i \in DOMAIN _dict : _dict[i].key \in _set

====
